---- MODULE Spec2Model ----
(***************************************************************************)
(* A model of the two concurrent components of the hnapi client:           *)
(*   - GetItemsBatch: one goroutine per identifier, gated by the buffered  *)
(*     channel sem, results fanned in through resultCh;                    *)
(*   - StartUpdates / pollUpdates: the polling goroutine that feeds the    *)
(*     buffered channel updatesCh until its context is cancelled.          *)
(* Both use makeRequest, whose HTTPClient.Do carries the context: a call   *)
(* made with a context that is already done fails without reaching the     *)
(* server, and a request that is outstanding when the context becomes done *)
(* returns the context's error.  A response that Do returned before the    *)
(* signal fired is a completion step that precedes the Cancel step.        *)
(* GetItem with makeRequest, and NewClient with its options, are also      *)
(* followed step by step, each under a specification of its own.           *)
(* Specifications: BatchSpec and FairBatchSpec (one GetItemsBatch call),   *)
(* StreamSpec and FairStreamSpec (one StartUpdates call), TwoStreamSpec    *)
(* (two StartUpdates calls interleaved), RetrySpec (either call under      *)
(* several retry configurations), FetchSpec (one GetItem call), ConfigSpec *)
(* (NewClient).                                                            *)
(***************************************************************************)
EXTENDS Integers, Sequences, FiniteSets

\* ------------------------------------------------------------------ bounds
\* The longest identifier sequence handed to GetItemsBatch.
MaxIds == 3
\* The largest Config.Concurrency tried (0 is tried as well).
MaxConc == 3
\* The number of ticks the ticker produces in a run.
MaxTicks == 2
\* The number of ticks the tickers of two StartUpdates calls produce together.
MaxTicksTwo == 1
\* The longest list of options handed to NewClient.
MaxOpts == 2

VARIABLES
  \* ---- GetItemsBatch
  ids,          \* the ids argument
  Concurrency,  \* c.Config.Concurrency
  MaxRetries,   \* c.Config.MaxRetries
  BackoffInterval, \* c.Config.BackoffInterval (seconds)
  callerDone,   \* the caller's ctx is done
  ctxDone,      \* the derived ctx of context.WithCancel: cancel() was called
  mainPc,       \* position of the calling goroutine
  spawned,      \* number of iterations of the spawning loop completed
  taskPc,       \* position of each fetch goroutine
  sem,          \* number of tokens held in the sem channel
  wg,           \* the WaitGroup counter
  resultCh,     \* buffered results, oldest first
  resultClosed, \* close(resultCh) has run
  items,        \* items collected so far (by task index)
  errors,       \* errors collected so far
  retItems,     \* returned slice
  retErr,       \* returned error
  attempts,     \* history: GetItem calls per identifier
  requests,     \* history: requests that reached the server
  outcome,      \* history: how each task's GetItem ended
  firstFailed,  \* history: the first task to send a failure on resultCh (0: none)
  liveAtCancel, \* history: tasks not yet finished when the caller's ctx fired
  queuedAtCancel, \* history: tasks without a slot when the caller's ctx fired
  \* ---- StartUpdates
  loopPc,       \* position of the polling goroutine
  startReturned,\* StartUpdates has returned updatesCh, nil to its caller
  streamDone,   \* the ctx given to StartUpdates is done
  updatesCh,    \* buffered updates, oldest first
  updatesClosed,\* close(updatesCh) has run
  tickPending,  \* ticker.C holds a tick
  ticks,        \* history: ticks the ticker has produced
  dropped,      \* history: ticks dropped because ticker.C held one
  polls,        \* history: pollUpdates calls
  updates,      \* the decoded Updates of the poll under way
  pollLog,      \* history: the result of each finished fetch, by poll
  delivered,    \* history: what was sent on updatesCh
  received,     \* history: what the consumer has received
  sawClosed,    \* history: the consumer has observed the close
  cancelAt,     \* history: loopPc when the ctx fired
  sentAtCancel, \* history: Len(delivered) when the ctx fired
  recvAtCancel, \* history: Len(received) when the ctx fired
  pollsAtCancel,\* history: polls when the ctx fired
  \* ---- a second StartUpdates call on the same client
  cur,          \* the call (1 or 2) the StartUpdates variables describe
  other,        \* the locals and history of the other call
  tickBudget,   \* the ticks the run's tickers may still produce
  \* ---- one GetItem call, step by step
  fetchIn,      \* the call's id, its ctx and what the server does
  fetchPc,      \* position in GetItem and makeRequest
  target,       \* the item variable makeRequest decodes into
  fetchErr,     \* the error makeRequest returns
  gotItem,      \* the *Item GetItem returns
  gotErr,       \* the error GetItem returns
  \* ---- one NewClient call
  opts,         \* the options argument
  config,       \* the Config being built
  applied,      \* how many options the loop has applied
  cfgPc         \* position in NewClient

batchVars == <<ids, Concurrency, MaxRetries, BackoffInterval, callerDone, ctxDone, mainPc, spawned, taskPc,
               sem, wg, resultCh, resultClosed, items, errors, retItems,
               retErr, attempts, requests, outcome, firstFailed, liveAtCancel, queuedAtCancel>>

streamVars == <<loopPc, startReturned, streamDone, updatesCh, updatesClosed,
                tickPending, ticks, dropped, polls, updates, pollLog, delivered,
                received, sawClosed, cancelAt, sentAtCancel, recvAtCancel, pollsAtCancel>>

callVars == <<cur, other, tickBudget>>

fetchVars == <<fetchIn, fetchPc, target, fetchErr, gotItem, gotErr>>

configVars == <<opts, config, applied, cfgPc>>

unitVars == <<fetchVars, configVars>>

vars == <<batchVars, streamVars, callVars, unitVars>>

\* ------------------------------------------------------------- inputs
Identifiers == 1..MaxIds

\* Input sequences up to renaming of identifiers and reordering of equal
\* ones: ids[1] = 1 and each next identifier repeats the previous one or is
\* the next fresh one.  This keeps all-distinct inputs and every pattern of
\* duplicates.
IdSeqs ==
  UNION { { s \in [1..k -> Identifiers] :
              /\ (k > 0 => s[1] = 1)
              /\ \A j \in 1..(k-1) : s[j+1] \in {s[j], s[j] + 1} } :
          k \in 0..MaxIds }

K == Len(ids)
Tasks == 1..K

\* A nil error of makeRequest and GetItem (an error is named by its class).
NoError == "nil"

\* The error GetItemsBatch returns is a tuple: empty for nil, the first
\* collected error, or that error wrapped in "failed to get any items".
NilErr == <<>>

\* A goroutine that shares the loop variable fetches the last identifier.
TaskIdShared(i) == ids[K]

\* The identifier the i-th goroutine fetches: go func(id int) {...}(id)
\* passes the loop variable by value.
TaskId(i) == ids[i]

\* itemResult: Item is non-nil exactly when Error is nil (GetItem).
itemResult(i, err) == [ID |-> TaskId(i), idx |-> i, Error |-> err]

\* ------------------------------------------------------ configuration
\* DefaultConfig(): durations in seconds.
DefaultConfig ==
  [BaseURL |-> "https://hacker-news.firebaseio.com/v0/",
   RequestTimeout |-> 10,
   MaxRetries |-> 3,
   BackoffInterval |-> 2,
   PollInterval |-> 30,
   Concurrency |-> 10,
   HTTPClient |-> "http.DefaultClient"]

\* A Config no field of which has been set.
ZeroConfig ==
  [BaseURL |-> "", RequestTimeout |-> 0, MaxRetries |-> 0,
   BackoffInterval |-> 0, PollInterval |-> 0, Concurrency |-> 0,
   HTTPClient |-> "nil"]

WithBaseURL(c, url) == [c EXCEPT !.BaseURL = url]
WithRequestTimeout(c, timeout) == [c EXCEPT !.RequestTimeout = timeout]
WithMaxRetries(c, retries) == [c EXCEPT !.MaxRetries = retries]
WithBackoffInterval(c, interval) == [c EXCEPT !.BackoffInterval = interval]
WithPollInterval(c, interval) == [c EXCEPT !.PollInterval = interval]

\* An option that makes a new Config with its field set.
WithConcurrencyFresh(c, concurrency) ==
  [ZeroConfig EXCEPT !.Concurrency = concurrency]

WithConcurrency(c, concurrency) == [c EXCEPT !.Concurrency = concurrency]
WithHTTPClient(c, client) == [c EXCEPT !.HTTPClient = client]

\* The options tried, each named by the field it sets and its argument.
Options ==
  { [field |-> "BaseURL", value |-> "http://localhost/"],
    [field |-> "RequestTimeout", value |-> 7],
    [field |-> "MaxRetries", value |-> 0],
    [field |-> "BackoffInterval", value |-> 1],
    [field |-> "PollInterval", value |-> 60],
    [field |-> "Concurrency", value |-> 0],
    [field |-> "Concurrency", value |-> 15],
    [field |-> "HTTPClient", value |-> "custom" ] }

OptionSeqs == UNION { [1..n -> Options] : n \in 0..MaxOpts }

\* opt(config)
Apply(opt, c) ==
  CASE opt.field = "BaseURL" -> WithBaseURL(c, opt.value)
    [] opt.field = "RequestTimeout" -> WithRequestTimeout(c, opt.value)
    [] opt.field = "MaxRetries" -> WithMaxRetries(c, opt.value)
    [] opt.field = "BackoffInterval" -> WithBackoffInterval(c, opt.value)
    [] opt.field = "PollInterval" -> WithPollInterval(c, opt.value)
    [] opt.field = "Concurrency" -> WithConcurrency(c, opt.value)
    [] opt.field = "HTTPClient" -> WithHTTPClient(c, opt.value)

\* No NewClient call is under way.
ConfigIdle ==
  /\ opts = <<>>
  /\ config = ZeroConfig
  /\ applied = 0
  /\ cfgPc = "none"

\* NewClient(opts...) is called.
ConfigStart ==
  /\ opts \in OptionSeqs
  /\ config = ZeroConfig
  /\ applied = 0
  /\ cfgPc = "call"

\* config := DefaultConfig()
NewClientDefaults ==
  /\ cfgPc = "call"
  /\ config' = DefaultConfig
  /\ cfgPc' = "apply"
  /\ UNCHANGED <<opts, applied>>
  /\ UNCHANGED <<batchVars, streamVars, callVars, fetchVars>>

\* for _, opt := range opts { opt(config) }
ApplyOption ==
  /\ cfgPc = "apply"
  /\ applied < Len(opts)
  /\ config' = Apply(opts[applied + 1], config)
  /\ applied' = applied + 1
  /\ UNCHANGED <<opts, cfgPc>>
  /\ UNCHANGED <<batchVars, streamVars, callVars, fetchVars>>

\* return &Client{Config: config}
NewClientReturn ==
  /\ cfgPc = "apply"
  /\ applied = Len(opts)
  /\ cfgPc' = "created"
  /\ UNCHANGED <<opts, config, applied>>
  /\ UNCHANGED <<batchVars, streamVars, callVars, fetchVars>>

ConfigNext ==
  \/ NewClientDefaults
  \/ ApplyOption
  \/ NewClientReturn

\* Retry configurations tried: the default one and one without retries.
RetryConfigs ==
  { [MaxRetries |-> DefaultConfig.MaxRetries,
     BackoffInterval |-> DefaultConfig.BackoffInterval],
    [MaxRetries |-> 0, BackoffInterval |-> 0] }

\* ------------------------------------------------- the fetch primitive
\* What the server (or the transport) can answer to one request.
Responses == {"ok", "transport", "status", "empty", "null", "malformed"}

\* makeRequest on an answered request: the class of the error it returns.
\* Only a 200 status with a non-empty, non-null, well-formed body decodes.
makeRequest(resp) ==
  IF resp = "transport" THEN "failed"          \* Do returned an error
  ELSE IF resp = "status" THEN "failed"        \* StatusCode != 200
  ELSE IF resp \in {"empty", "null"} THEN "failed"
  ELSE IF resp = "malformed" THEN "failed"     \* json.Unmarshal failed
  ELSE NoError

\* makeRequest under a context that is done: Do returns the context's error.
ctxErr == "canceled"

\* GetItem: the item is returned exactly when makeRequest returned nil; the
\* error is wrapped, its class kept.
GetItem(resp) == makeRequest(resp)

\* ------------------------------------- GetItem and makeRequest in steps
\* Status codes the server answers with.
StatusCodes == {200, 404, 500}

\* Bodies the server sends: nothing, the four bytes null, null followed by
\* a newline, text that is not JSON, JSON with a field of the wrong type,
\* and a well-formed item.
Bodies == {"empty", "null", "nullPadded", "invalidJSON", "wrongType", "item"}

\* One GetItem call: its id, whether BaseURL makes a valid request URL,
\* whether its ctx is done by the time Do returns, and the server's answer.
FetchInputs ==
  [id : Identifiers, urlOk : BOOLEAN, ctxDone : BOOLEAN,
   transportOk : BOOLEAN, status : StatusCodes, readOk : BOOLEAN,
   body : Bodies]

\* The class in Responses of what the server does in a call.
ResponseOf(in) ==
  IF ~in.transportOk \/ (in.status = 200 /\ ~in.readOk) THEN "transport"
  ELSE IF in.status # 200 THEN "status"
  ELSE IF in.body = "empty" THEN "empty"
  ELSE IF in.body = "null" THEN "null"
  ELSE IF in.body \in {"invalidJSON", "wrongType"} THEN "malformed"
  ELSE "ok"

\* No GetItem call is under way.
FetchIdle ==
  /\ fetchIn = [id |-> 1, urlOk |-> TRUE, ctxDone |-> FALSE,
                transportOk |-> TRUE, status |-> 200, readOk |-> TRUE,
                body |-> "item"]
  /\ fetchPc = "none"
  /\ target = "zero"
  /\ fetchErr = NoError
  /\ gotItem = "none"
  /\ gotErr = NilErr

\* GetItem is called: var item Item.
FetchStart ==
  /\ fetchIn \in FetchInputs
  /\ fetchPc = "call"
  /\ target = "zero"
  /\ fetchErr = NoError
  /\ gotItem = "none"
  /\ gotErr = NilErr

\* makeRequest returns err.
Fail(err) ==
  /\ fetchErr' = err
  /\ fetchPc' = "failed"

\* http.NewRequestWithContext
NewRequest ==
  /\ fetchPc = "call"
  /\ IF fetchIn.urlOk
       THEN fetchPc' = "created" /\ UNCHANGED fetchErr
       ELSE Fail("create")
  /\ UNCHANGED <<fetchIn, target, gotItem, gotErr>>
  /\ UNCHANGED <<batchVars, streamVars, callVars, configVars>>

\* c.Config.HTTPClient.Do(req)
Do ==
  /\ fetchPc = "created"
  /\ IF fetchIn.ctxDone THEN Fail(ctxErr)
     ELSE IF ~fetchIn.transportOk THEN Fail("execute")
     ELSE fetchPc' = "answered" /\ UNCHANGED fetchErr
  /\ UNCHANGED <<fetchIn, target, gotItem, gotErr>>
  /\ UNCHANGED <<batchVars, streamVars, callVars, configVars>>

\* if resp.StatusCode != http.StatusOK
CheckStatus ==
  /\ fetchPc = "answered"
  /\ IF fetchIn.status # 200
       THEN Fail("status")
       ELSE fetchPc' = "statusOk" /\ UNCHANGED fetchErr
  /\ UNCHANGED <<fetchIn, target, gotItem, gotErr>>
  /\ UNCHANGED <<batchVars, streamVars, callVars, configVars>>

\* io.ReadAll(resp.Body)
ReadAll ==
  /\ fetchPc = "statusOk"
  /\ IF ~fetchIn.readOk
       THEN Fail("read")
       ELSE fetchPc' = "read" /\ UNCHANGED fetchErr
  /\ UNCHANGED <<fetchIn, target, gotItem, gotErr>>
  /\ UNCHANGED <<batchVars, streamVars, callVars, configVars>>

\* len(body) == 0 || string(body) == "null"
IsEmptyBody(body) == body \in {"empty", "null"}

CheckBody ==
  /\ fetchPc = "read"
  /\ IF IsEmptyBody(fetchIn.body)
       THEN Fail("empty")
       ELSE fetchPc' = "bodyOk" /\ UNCHANGED fetchErr
  /\ UNCHANGED <<fetchIn, target, gotItem, gotErr>>
  /\ UNCHANGED <<batchVars, streamVars, callVars, configVars>>

\* json.Unmarshal(body, target): text that is not JSON is rejected before
\* the target is touched; a field of the wrong type is skipped, the rest
\* decoded and an error returned; a JSON null leaves the target as it is
\* and is no error.
Unmarshal ==
  /\ fetchPc = "bodyOk"
  /\ IF fetchIn.body = "item"
       THEN /\ target' = "decoded"
            /\ fetchPc' = "unmarshalled"
            /\ UNCHANGED fetchErr
     ELSE IF fetchIn.body = "wrongType"
       THEN /\ target' = "partial"
            /\ Fail("unmarshal")
     ELSE IF fetchIn.body = "invalidJSON"
       THEN /\ Fail("unmarshal")
            /\ UNCHANGED target
     ELSE /\ fetchPc' = "unmarshalled"
          /\ UNCHANGED <<target, fetchErr>>
  /\ UNCHANGED <<fetchIn, gotItem, gotErr>>
  /\ UNCHANGED <<batchVars, streamVars, callVars, configVars>>

\* A GetItem that returns &item whatever makeRequest returned.
ItemReturnedAlways(t, err) == t

\* The *Item GetItem returns: nil with an error, &item otherwise.
ItemReturned(t, err) == IF err # NoError THEN "nil" ELSE t

\* The error GetItem returns: makeRequest's, wrapped with the id.
ErrReturned(id, err) ==
  IF err # NoError THEN <<"failed to get item", id, err>> ELSE NilErr

\* GetItem returns.
GetItemReturn ==
  /\ fetchPc \in {"failed", "unmarshalled"}
  /\ gotItem' = ItemReturned(target, fetchErr)
  /\ gotErr' = ErrReturned(fetchIn.id, fetchErr)
  /\ fetchPc' = "returned"
  /\ UNCHANGED <<fetchIn, target, fetchErr>>
  /\ UNCHANGED <<batchVars, streamVars, callVars, configVars>>

FetchNext ==
  \/ NewRequest
  \/ Do
  \/ CheckStatus
  \/ ReadAll
  \/ CheckBody
  \/ Unmarshal
  \/ GetItemReturn

\* ------------------------------------------------------ GetItemsBatch
\* GetItem called with a context of its own instead of the batch's.
CtxDetached == FALSE

\* The context GetItemsBatch hands to GetItem: derived from the caller's by
\* context.WithCancel, done when either the caller's is done or cancel() ran.
CtxIsDone == callerDone \/ ctxDone

\* The state at a GetItemsBatch call, the retry configuration left open.
BatchStart ==
  /\ ids \in IdSeqs
  /\ Concurrency \in 0..MaxConc
  /\ callerDone = FALSE
  /\ ctxDone = FALSE
  /\ mainPc = "start"
  /\ spawned = 0
  /\ taskPc = [i \in 1..Len(ids) |-> "idle"]
  /\ sem = 0
  /\ wg = 0
  /\ resultCh = <<>>
  /\ resultClosed = FALSE
  /\ items = <<>>
  /\ errors = <<>>
  /\ retItems = <<>>
  /\ retErr = NilErr
  /\ attempts = [id \in Identifiers |-> 0]
  /\ requests = 0
  /\ outcome = [i \in 1..Len(ids) |-> "none"]
  /\ firstFailed = 0
  /\ liveAtCancel = {}
  /\ queuedAtCancel = {}

\* A GetItemsBatch call on a client with the default retry configuration.
BatchInit ==
  /\ BatchStart
  /\ MaxRetries = DefaultConfig.MaxRetries
  /\ BackoffInterval = DefaultConfig.BackoffInterval

\* A GetItemsBatch call on a client with any of the retry configurations.
RetryBatchInit ==
  /\ BatchStart
  /\ \E r \in RetryConfigs :
       /\ MaxRetries = r.MaxRetries
       /\ BackoffInterval = r.BackoffInterval

\* GetItemsBatch without the early return on an empty ids.
StartNoEmptyCheck ==
  /\ mainPc = "start"
  /\ mainPc' = IF K = 0 THEN "collect" ELSE "spawn"
  /\ UNCHANGED <<ids, Concurrency, MaxRetries, BackoffInterval, callerDone, ctxDone, spawned, taskPc, sem,
                 wg, resultCh, resultClosed, items, errors, retItems, retErr,
                 attempts, requests, outcome, firstFailed, liveAtCancel, queuedAtCancel>>
  /\ UNCHANGED <<streamVars, callVars, unitVars>>

\* if len(ids) == 0 { return []*Item{}, nil }; otherwise the derived context,
\* resultCh, sem and wg are created.
Start ==
  /\ mainPc = "start"
  /\ IF K = 0
       THEN /\ mainPc' = "returned"
            /\ retItems' = <<>>
            /\ retErr' = NilErr
       ELSE /\ mainPc' = "spawn"
            /\ UNCHANGED <<retItems, retErr>>
  /\ UNCHANGED <<ids, Concurrency, MaxRetries, BackoffInterval, callerDone, ctxDone, spawned, taskPc, sem,
                 wg, resultCh, resultClosed, items, errors, attempts,
                 requests, outcome, firstFailed, liveAtCancel, queuedAtCancel>>
  /\ UNCHANGED <<streamVars, callVars, unitVars>>

\* One iteration of the spawning loop: wg.Add(1); go func(id). After the last
\* one the closer goroutine is started and the caller goes on to collect.
Spawn ==
  /\ mainPc = "spawn"
  /\ spawned < K
  /\ wg' = wg + 1
  /\ spawned' = spawned + 1
  /\ taskPc' = [taskPc EXCEPT ![spawned + 1] = "queued"]
  /\ mainPc' = IF spawned + 1 = K THEN "collect" ELSE "spawn"
  /\ UNCHANGED <<ids, Concurrency, MaxRetries, BackoffInterval, callerDone, ctxDone, sem, resultCh,
                 resultClosed, items, errors, retItems, retErr, attempts,
                 requests, outcome, firstFailed, liveAtCancel, queuedAtCancel>>
  /\ UNCHANGED <<streamVars, callVars, unitVars>>

\* A ceiling of 0 taken to mean a ceiling of 1.
CanAcquireAtLeastOne == sem < (IF Concurrency = 0 THEN 1 ELSE Concurrency)

\* A semaphore that admits one sender too many.
CanAcquireOffByOne == sem <= Concurrency

\* sem <- struct{}{} can proceed: the channel holds fewer than its capacity.
\* (With capacity 0 the send needs a receiver, and the only receive is the
\* deferred release of a task that has already sent.)
CanAcquire == sem < Concurrency

Acquire(i) ==
  /\ taskPc[i] = "queued"
  /\ CanAcquire
  /\ sem' = sem + 1
  /\ taskPc' = [taskPc EXCEPT ![i] = "acquired"]
  /\ UNCHANGED <<ids, Concurrency, MaxRetries, BackoffInterval, callerDone, ctxDone, mainPc, spawned, wg,
                 resultCh, resultClosed, items, errors, retItems, retErr,
                 attempts, requests, outcome, firstFailed, liveAtCancel, queuedAtCancel>>
  /\ UNCHANGED <<streamVars, callVars, unitVars>>

\* make(chan *itemResult, len(ids)-1): a sink one place short.
ResultCapShort == K - 1

\* resultCh := make(chan *itemResult, len(ids))
ResultCap == K

\* A fetch goroutine that ends without releasing its slot.
FinishNoRelease(i, err) ==
  /\ Len(resultCh) < ResultCap
  /\ resultCh' = Append(resultCh, itemResult(i, err))
  /\ sem' = sem
  /\ wg' = wg - 1
  /\ taskPc' = [taskPc EXCEPT ![i] = "done"]
  /\ outcome' = [outcome EXCEPT ![i] = err]
  /\ firstFailed' = IF firstFailed = 0 /\ err # NoError THEN i ELSE firstFailed

\* The end of a fetch goroutine: resultCh <- &itemResult{...}, which needs
\* room in the buffer, then the deferred <-sem and wg.Done().
Finish(i, err) ==
  /\ Len(resultCh) < ResultCap
  /\ resultCh' = Append(resultCh, itemResult(i, err))
  /\ sem' = sem - 1
  /\ wg' = wg - 1
  /\ taskPc' = [taskPc EXCEPT ![i] = "done"]
  /\ outcome' = [outcome EXCEPT ![i] = err]
  /\ firstFailed' = IF firstFailed = 0 /\ err # NoError THEN i ELSE firstFailed

\* c.GetItem(ctx, id) is called: with a context that is done, Do fails at
\* once and no request is sent; otherwise the request goes out.
Issue(i) ==
  /\ taskPc[i] = "acquired"
  /\ attempts' = [attempts EXCEPT ![TaskId(i)] = @ + 1]
  /\ IF CtxIsDone
       THEN /\ Finish(i, ctxErr)
            /\ UNCHANGED requests
       ELSE /\ requests' = requests + 1
            /\ taskPc' = [taskPc EXCEPT ![i] = "inflight"]
            /\ UNCHANGED <<sem, wg, resultCh, outcome, firstFailed>>
  /\ UNCHANGED <<ids, Concurrency, MaxRetries, BackoffInterval, callerDone, ctxDone, mainPc, spawned,
                 resultClosed, items, errors, retItems, retErr, liveAtCancel, queuedAtCancel>>
  /\ UNCHANGED <<streamVars, callVars, unitVars>>

\* A GetItem that sends the request again while retries are left.
RespondWithRetry(i) ==
  /\ taskPc[i] = "inflight"
  /\ ~CtxIsDone
  /\ \E resp \in Responses :
       IF GetItem(resp) # NoError /\ attempts[TaskId(i)] <= MaxRetries
         THEN /\ attempts' = [attempts EXCEPT ![TaskId(i)] = @ + 1]
              /\ requests' = requests + 1
              /\ UNCHANGED <<taskPc, sem, wg, resultCh, outcome, firstFailed>>
         ELSE /\ Finish(i, GetItem(resp))
              /\ UNCHANGED <<attempts, requests>>
  /\ UNCHANGED <<ids, Concurrency, MaxRetries, BackoffInterval, callerDone,
                 ctxDone, mainPc, spawned, resultClosed, items, errors,
                 retItems, retErr, liveAtCancel, queuedAtCancel>>
  /\ UNCHANGED <<streamVars, callVars, unitVars>>

\* The request is answered and GetItem returns.
Respond(i) ==
  /\ taskPc[i] = "inflight"
  /\ ~CtxIsDone
  /\ \E resp \in Responses : Finish(i, GetItem(resp))
  /\ UNCHANGED <<ids, Concurrency, MaxRetries, BackoffInterval, callerDone, ctxDone, mainPc, spawned,
                 resultClosed, items, errors, retItems, retErr, attempts,
                 requests, liveAtCancel, queuedAtCancel>>
  /\ UNCHANGED <<streamVars, callVars, unitVars>>

\* The context became done while the request was outstanding: Do returns
\* the context's error.
Abort(i) ==
  /\ taskPc[i] = "inflight"
  /\ CtxIsDone
  /\ Finish(i, ctxErr)
  /\ UNCHANGED <<ids, Concurrency, MaxRetries, BackoffInterval, callerDone, ctxDone, mainPc, spawned,
                 resultClosed, items, errors, retItems, retErr, attempts,
                 requests, liveAtCancel, queuedAtCancel>>
  /\ UNCHANGED <<streamVars, callVars, unitVars>>

\* wg.Add(1) moved into the goroutine: Wait may return while tasks run.
WaitDoneEarly == TRUE

\* wg.Wait() of the closer goroutine returns.
WaitDone == wg = 0

\* go func() { wg.Wait(); close(resultCh) }()
CloseResults ==
  /\ mainPc = "collect"
  /\ ~resultClosed
  /\ WaitDone
  /\ resultClosed' = TRUE
  /\ UNCHANGED <<ids, Concurrency, MaxRetries, BackoffInterval, callerDone, ctxDone, mainPc, spawned,
                 taskPc, sem, wg, resultCh, items, errors, retItems, retErr,
                 attempts, requests, outcome, firstFailed, liveAtCancel, queuedAtCancel>>
  /\ UNCHANGED <<streamVars, callVars, unitVars>>

\* A fail-fast collector: the first failure cancels the derived context.
CollectCancelOnError ==
  /\ mainPc = "collect"
  /\ resultCh # <<>>
  /\ LET result == Head(resultCh) IN
       IF result.Error # NoError
         THEN /\ errors' = Append(errors, result)
              /\ UNCHANGED items
         ELSE /\ items' = Append(items, result.idx)
              /\ UNCHANGED errors
  /\ resultCh' = Tail(resultCh)
  /\ ctxDone' = (ctxDone \/ Head(resultCh).Error # NoError)
  /\ UNCHANGED <<ids, Concurrency, MaxRetries, BackoffInterval, callerDone, mainPc, spawned,
                 taskPc, sem, wg, resultClosed, retItems, retErr, attempts,
                 requests, outcome, firstFailed, liveAtCancel, queuedAtCancel>>
  /\ UNCHANGED <<streamVars, callVars, unitVars>>

\* A collector that keeps one value per identifier.
CollectDedup ==
  /\ mainPc = "collect"
  /\ resultCh # <<>>
  /\ LET result == Head(resultCh) IN
       IF result.Error # NoError
         THEN /\ errors' = Append(errors, result)
              /\ UNCHANGED items
         ELSE /\ items' = IF \E j \in 1..Len(items) : ids[items[j]] = result.ID
                           THEN items
                           ELSE Append(items, result.idx)
              /\ UNCHANGED errors
  /\ resultCh' = Tail(resultCh)
  /\ UNCHANGED <<ids, Concurrency, MaxRetries, BackoffInterval, callerDone, ctxDone, mainPc, spawned,
                 taskPc, sem, wg, resultClosed, retItems, retErr, attempts,
                 requests, outcome, firstFailed, liveAtCancel, queuedAtCancel>>
  /\ UNCHANGED <<streamVars, callVars, unitVars>>

\* One iteration of for result := range resultCh.
Collect ==
  /\ mainPc = "collect"
  /\ resultCh # <<>>
  /\ LET result == Head(resultCh) IN
       IF result.Error # NoError
         THEN /\ errors' = Append(errors, result)
              /\ UNCHANGED items
         ELSE /\ items' = Append(items, result.idx)
              /\ UNCHANGED errors
  /\ resultCh' = Tail(resultCh)
  /\ UNCHANGED <<ids, Concurrency, MaxRetries, BackoffInterval, callerDone, ctxDone, mainPc, spawned,
                 taskPc, sem, wg, resultClosed, retItems, retErr, attempts,
                 requests, outcome, firstFailed, liveAtCancel, queuedAtCancel>>
  /\ UNCHANGED <<streamVars, callVars, unitVars>>

\* items made with make([]*Item, len(ids)): K nil entries precede the values.
ReturnedItemsPadded(its, errs) ==
  IF Len(its) = 0 /\ Len(errs) > 0 THEN <<>> ELSE [i \in 1..K |-> 0] \o its

\* A fail-fast collector: any failure discards the values collected.
ReturnedItemsFailFast(its, errs) ==
  IF Len(errs) > 0 THEN <<>> ELSE its

\* The values GetItemsBatch returns once the range loop has ended.
ReturnedItems(its, errs) ==
  IF Len(its) = 0 /\ Len(errs) > 0 THEN <<>> ELSE its

\* The collector reports the error it collected last.
ReturnedErrLast(its, errs) ==
  IF Len(its) = 0 /\ Len(errs) > 0
    THEN <<"failed to get any items", errs[Len(errs)]>>
  ELSE IF Len(errs) > 0
    THEN <<errs[Len(errs)]>>
  ELSE NilErr

\* Only the fatal case reports an error.
ReturnedErrOnlyFatal(its, errs) ==
  IF Len(its) = 0 /\ Len(errs) > 0
    THEN <<"failed to get any items", errs[1]>>
  ELSE NilErr

\* Only the partial case reports an error.
ReturnedErrOnlyPartial(its, errs) ==
  IF Len(its) > 0 /\ Len(errs) > 0
    THEN <<errs[1]>>
  ELSE NilErr

ReturnedErr(its, errs) ==
  IF Len(its) = 0 /\ Len(errs) > 0
    THEN <<"failed to get any items", errs[1]>>
  ELSE IF Len(errs) > 0
    THEN <<errs[1]>>
  ELSE NilErr

\* The range loop ends (resultCh closed and drained), the results are
\* returned and the deferred cancel() runs.
Return ==
  /\ mainPc = "collect"
  /\ resultClosed
  /\ resultCh = <<>>
  /\ retItems' = ReturnedItems(items, errors)
  /\ retErr' = ReturnedErr(items, errors)
  /\ ctxDone' = TRUE
  /\ mainPc' = "returned"
  /\ UNCHANGED <<ids, Concurrency, MaxRetries, BackoffInterval, callerDone, spawned, taskPc, sem, wg,
                 resultCh, resultClosed, items, errors, attempts, requests,
                 outcome, firstFailed, liveAtCancel, queuedAtCancel>>
  /\ UNCHANGED <<streamVars, callVars, unitVars>>

\* The caller's cancellation signal fires (at any time, also before the call).
Cancel ==
  /\ ~callerDone
  /\ callerDone' = TRUE
  /\ liveAtCancel' = {i \in Tasks : taskPc[i] # "done"}
  /\ queuedAtCancel' = {i \in Tasks : taskPc[i] \in {"idle", "queued"}}
  /\ UNCHANGED <<ids, Concurrency, MaxRetries, BackoffInterval, ctxDone, mainPc, spawned, taskPc, sem, wg,
                 resultCh, resultClosed, items, errors, retItems, retErr,
                 attempts, requests, outcome, firstFailed>>
  /\ UNCHANGED <<streamVars, callVars, unitVars>>

BatchNext ==
  \/ Start
  \/ Spawn
  \/ \E i \in Tasks : Acquire(i)
  \/ \E i \in Tasks : Issue(i)
  \/ \E i \in Tasks : Respond(i)
  \/ \E i \in Tasks : Abort(i)
  \/ CloseResults
  \/ Collect
  \/ Return
  \/ Cancel

\* ------------------------------------------------------- StartUpdates
\* make(chan Updates, 1)
UpdatesBuffer == 1

\* An Updates value with nothing in it.
NoUpdates == [Items |-> <<>>, Profiles |-> <<>>]

\* The Updates values the n-th poll can decode (tagged by n).
UpdatesOf(n) ==
  { [Items |-> it, Profiles |-> pr] : it \in {<<>>, <<n>>}, pr \in {<<>>, <<n>>} }

\* The locals of one StartUpdates call (its ctx, updatesCh, ticker and
\* goroutine) and the history kept of it.
CallState ==
  [loopPc |-> loopPc, startReturned |-> startReturned,
   streamDone |-> streamDone, updatesCh |-> updatesCh,
   updatesClosed |-> updatesClosed, tickPending |-> tickPending,
   ticks |-> ticks, dropped |-> dropped, polls |-> polls,
   updates |-> updates, pollLog |-> pollLog, delivered |-> delivered,
   received |-> received, sawClosed |-> sawClosed, cancelAt |-> cancelAt,
   sentAtCancel |-> sentAtCancel, recvAtCancel |-> recvAtCancel,
   pollsAtCancel |-> pollsAtCancel]

\* A call that has not been made yet.
FreshCall ==
  [loopPc |-> "init", startReturned |-> FALSE, streamDone |-> FALSE,
   updatesCh |-> <<>>, updatesClosed |-> FALSE, tickPending |-> FALSE,
   ticks |-> 0, dropped |-> 0, polls |-> 0, updates |-> NoUpdates,
   pollLog |-> <<>>, delivered |-> <<>>, received |-> <<>>,
   sawClosed |-> FALSE, cancelAt |-> "none", sentAtCancel |-> 0,
   recvAtCancel |-> 0, pollsAtCancel |-> 0]

\* The state before either call: the variables describe call 1.
CallInit ==
  /\ loopPc = "init"
  /\ startReturned = FALSE
  /\ streamDone = FALSE
  /\ updatesCh = <<>>
  /\ updatesClosed = FALSE
  /\ tickPending = FALSE
  /\ ticks = 0
  /\ dropped = 0
  /\ polls = 0
  /\ updates = NoUpdates
  /\ pollLog = <<>>
  /\ delivered = <<>>
  /\ received = <<>>
  /\ sawClosed = FALSE
  /\ cancelAt = "none"
  /\ sentAtCancel = 0
  /\ recvAtCancel = 0
  /\ pollsAtCancel = 0
  /\ cur = 1
  /\ other = FreshCall

\* One StartUpdates call is going to be made.
StreamInit ==
  /\ CallInit
  /\ tickBudget = MaxTicks

\* Two StartUpdates calls are going to be made on the client.
TwoStreamInit ==
  /\ CallInit
  /\ tickBudget = MaxTicksTwo

\* A StartUpdates that polls once itself before it starts the goroutine.
StartUpdatesAfterFirstPoll ==
  /\ loopPc = "init"
  /\ loopPc' = "start"
  /\ UNCHANGED <<startReturned, streamDone, updatesCh, updatesClosed,
                 tickPending, ticks, dropped, polls, updates, pollLog, delivered,
                 received, sawClosed, cancelAt, sentAtCancel, recvAtCancel, pollsAtCancel>>
  /\ UNCHANGED <<batchVars, callVars, unitVars>>

\* StartUpdates makes the channel, starts the goroutine and returns
\* updatesCh, nil.
StartUpdates ==
  /\ loopPc = "init"
  /\ loopPc' = "start"
  /\ startReturned' = TRUE
  /\ UNCHANGED <<streamDone, updatesCh, updatesClosed, tickPending, ticks, dropped,
                 polls, updates, pollLog, delivered, received, sawClosed,
                 cancelAt, sentAtCancel, recvAtCancel, pollsAtCancel>>
  /\ UNCHANGED <<batchVars, callVars, unitVars>>

\* pollUpdates called with context.Background().
PollCtxBackground == FALSE

\* One context kept on the Client and used by every StartUpdates call.
PollCtxShared == streamDone \/ other.streamDone

\* The context pollUpdates is called with is done: the goroutine passes the
\* ctx of StartUpdates on.
PollCtxDone == streamDone

\* What pollUpdates leaves in the log of polls: the error class of
\* makeRequest and the decoded Updates.
PollResult(err, u) == [Error |-> err, Updates |-> u]

\* A loop that returns on a pollUpdates error.
AfterPollErrorReturn == "exited"

\* Where the loop goes after pollUpdates returned an error: it logs the
\* error and continues with its select.
AfterPollError == "idle"

\* pollUpdates is entered and makeRequest called: with a context that is
\* done Do fails at once, pollUpdates returns the error, the loop logs it
\* and goes (back) to its select; otherwise the request goes out.
PollBegin ==
  /\ polls' = polls + 1
  /\ IF PollCtxDone
       THEN /\ loopPc' = AfterPollError
            /\ pollLog' = Append(pollLog, PollResult(ctxErr, NoUpdates))
       ELSE /\ loopPc' = "fetching"
            /\ UNCHANGED pollLog

\* A goroutine that waits for the first tick before it polls.
FirstPollSkipped ==
  /\ loopPc = "start"
  /\ loopPc' = "idle"
  /\ UNCHANGED <<startReturned, streamDone, updatesCh, updatesClosed,
                 tickPending, ticks, dropped, polls, updates, pollLog, delivered,
                 received, sawClosed, cancelAt, sentAtCancel, recvAtCancel, pollsAtCancel>>
  /\ UNCHANGED <<batchVars, callVars, unitVars>>

\* The goroutine creates its ticker and polls immediately.
FirstPoll ==
  /\ loopPc = "start"
  /\ PollBegin
  /\ UNCHANGED <<startReturned, streamDone, updatesCh, updatesClosed,
                 tickPending, ticks, dropped, updates, delivered, received, sawClosed,
                 cancelAt, sentAtCancel, recvAtCancel, pollsAtCancel>>
  /\ UNCHANGED <<batchVars, callVars, unitVars>>

\* The ticker fires; a tick is dropped when ticker.C already holds one.
Tick ==
  /\ loopPc \in {"fetching", "deliver", "idle"}
  /\ tickBudget > 0
  /\ tickBudget' = tickBudget - 1
  /\ ticks' = ticks + 1
  /\ dropped' = IF tickPending THEN dropped + 1 ELSE dropped
  /\ tickPending' = TRUE
  /\ UNCHANGED <<loopPc, startReturned, streamDone, updatesCh, updatesClosed,
                 polls, updates, pollLog, delivered, received, sawClosed,
                 cancelAt, sentAtCancel, recvAtCancel, pollsAtCancel>>
  /\ UNCHANGED <<batchVars, cur, other, unitVars>>

\* A select with a default case that polls: no tick is waited for.
TickPollNoWait ==
  /\ loopPc = "idle"
  /\ PollBegin
  /\ UNCHANGED <<startReturned, streamDone, updatesCh, updatesClosed,
                 tickPending, ticks, dropped, updates, delivered, received,
                 sawClosed, cancelAt, sentAtCancel, recvAtCancel, pollsAtCancel>>
  /\ UNCHANGED <<batchVars, callVars, unitVars>>

\* A tick that starts its poll in a goroutine of its own, whatever the
\* previous poll is doing.
TickPollConcurrent ==
  /\ loopPc \in {"idle", "fetching", "deliver"}
  /\ tickPending
  /\ tickPending' = FALSE
  /\ PollBegin
  /\ UNCHANGED <<startReturned, streamDone, updatesCh, updatesClosed, ticks,
                 dropped, updates, delivered, received, sawClosed, cancelAt,
                 sentAtCancel, recvAtCancel, pollsAtCancel>>
  /\ UNCHANGED <<batchVars, callVars, unitVars>>

\* case <-ticker.C: poll again.
TickPoll ==
  /\ loopPc = "idle"
  /\ tickPending
  /\ tickPending' = FALSE
  /\ PollBegin
  /\ UNCHANGED <<startReturned, streamDone, updatesCh, updatesClosed, ticks, dropped,
                 updates, delivered, received, sawClosed, cancelAt,
                 sentAtCancel, recvAtCancel, pollsAtCancel>>
  /\ UNCHANGED <<batchVars, callVars, unitVars>>

\* A select without the guard of its exit case.
LoopExitUnguarded ==
  /\ loopPc = "idle"
  /\ loopPc' = "exited"
  /\ updatesClosed' = TRUE
  /\ UNCHANGED <<startReturned, streamDone, updatesCh, tickPending, ticks, dropped,
                 polls, updates, pollLog, delivered, received, sawClosed,
                 cancelAt, sentAtCancel, recvAtCancel, pollsAtCancel>>
  /\ UNCHANGED <<batchVars, callVars, unitVars>>

\* A ctx.Done() case that closes the channel and breaks out of the select
\* only: the for loop goes on.
LoopExitBreakOnly ==
  /\ loopPc = "idle"
  /\ streamDone
  /\ loopPc' = "idle"
  /\ updatesClosed' = TRUE
  /\ UNCHANGED <<startReturned, streamDone, updatesCh, tickPending, ticks, dropped,
                 polls, updates, pollLog, delivered, received, sawClosed,
                 cancelAt, sentAtCancel, recvAtCancel, pollsAtCancel>>
  /\ UNCHANGED <<batchVars, callVars, unitVars>>

\* case <-ctx.Done(): return, with the deferred ticker.Stop() and
\* close(updatesCh).
LoopExit ==
  /\ loopPc = "idle"
  /\ streamDone
  /\ loopPc' = "exited"
  /\ updatesClosed' = TRUE
  /\ UNCHANGED <<startReturned, streamDone, updatesCh, tickPending, ticks, dropped,
                 polls, updates, pollLog, delivered, received, sawClosed,
                 cancelAt, sentAtCancel, recvAtCancel, pollsAtCancel>>
  /\ UNCHANGED <<batchVars, callVars, unitVars>>

\* A pollUpdates that sends whatever it decoded.
ShouldSendAlways(u) == TRUE

\* if len(updates.Items) > 0 || len(updates.Profiles) > 0
ShouldSend(u) == Len(u.Items) > 0 \/ Len(u.Profiles) > 0

\* The request of makeRequest is answered: an error is returned to the loop,
\* which logs it; an Updates with nothing in it is not sent; any other is
\* handed to the select that sends it.
PollRespond ==
  /\ loopPc = "fetching"
  /\ ~PollCtxDone
  /\ \E resp \in Responses :
       IF makeRequest(resp) # NoError
         THEN /\ loopPc' = AfterPollError
              /\ pollLog' = Append(pollLog, PollResult(makeRequest(resp), NoUpdates))
              /\ UNCHANGED updates
         ELSE \E u \in UpdatesOf(polls) :
                /\ updates' = u
                /\ pollLog' = Append(pollLog, PollResult(NoError, u))
                /\ loopPc' = IF ShouldSend(u) THEN "deliver" ELSE "idle"
  /\ UNCHANGED <<startReturned, streamDone, updatesCh, updatesClosed,
                 tickPending, ticks, dropped, polls, delivered, received, sawClosed,
                 cancelAt, sentAtCancel, recvAtCancel, pollsAtCancel>>
  /\ UNCHANGED <<batchVars, callVars, unitVars>>

\* The context became done while the request was outstanding.
PollAbort ==
  /\ loopPc = "fetching"
  /\ PollCtxDone
  /\ loopPc' = AfterPollError
  /\ pollLog' = Append(pollLog, PollResult(ctxErr, NoUpdates))
  /\ UNCHANGED <<startReturned, streamDone, updatesCh, updatesClosed,
                 tickPending, ticks, dropped, polls, updates, delivered, received,
                 sawClosed, cancelAt, sentAtCancel, recvAtCancel, pollsAtCancel>>
  /\ UNCHANGED <<batchVars, callVars, unitVars>>

\* A send that gives up when the buffer is full.
DeliverSendOrDrop ==
  /\ loopPc = "deliver"
  /\ IF Len(updatesCh) < UpdatesBuffer
       THEN /\ updatesCh' = Append(updatesCh, updates)
            /\ delivered' = Append(delivered, updates)
       ELSE UNCHANGED <<updatesCh, delivered>>
  /\ loopPc' = "idle"
  /\ UNCHANGED <<startReturned, streamDone, updatesClosed, tickPending, ticks, dropped,
                 polls, updates, pollLog, received, sawClosed, cancelAt,
                 sentAtCancel, recvAtCancel, pollsAtCancel>>
  /\ UNCHANGED <<batchVars, callVars, unitVars>>

\* A send that is retried after it succeeded.
DeliverSendAgain ==
  /\ loopPc = "deliver"
  /\ Len(updatesCh) < UpdatesBuffer
  /\ updatesCh' = Append(updatesCh, updates)
  /\ delivered' = Append(delivered, updates)
  /\ loopPc' \in {"deliver", "idle"}
  /\ UNCHANGED <<startReturned, streamDone, updatesClosed, tickPending, ticks, dropped,
                 polls, updates, pollLog, received, sawClosed, cancelAt,
                 sentAtCancel, recvAtCancel, pollsAtCancel>>
  /\ UNCHANGED <<batchVars, callVars, unitVars>>

\* case updatesCh <- updates
DeliverSend ==
  /\ loopPc = "deliver"
  /\ Len(updatesCh) < UpdatesBuffer
  /\ updatesCh' = Append(updatesCh, updates)
  /\ delivered' = Append(delivered, updates)
  /\ loopPc' = "idle"
  /\ UNCHANGED <<startReturned, streamDone, updatesClosed, tickPending, ticks, dropped,
                 polls, updates, pollLog, received, sawClosed, cancelAt,
                 sentAtCancel, recvAtCancel, pollsAtCancel>>
  /\ UNCHANGED <<batchVars, callVars, unitVars>>

\* A plain send in place of the select: nothing but the consumer unblocks it.
DeliverAbandonNever ==
  /\ FALSE
  /\ UNCHANGED vars

\* case <-ctx.Done(): return ctx.Err()
DeliverAbandon ==
  /\ loopPc = "deliver"
  /\ PollCtxDone
  /\ loopPc' = AfterPollError
  /\ UNCHANGED <<startReturned, streamDone, updatesCh, updatesClosed,
                 tickPending, ticks, dropped, polls, updates, pollLog, delivered,
                 received, sawClosed, cancelAt, sentAtCancel, recvAtCancel, pollsAtCancel>>
  /\ UNCHANGED <<batchVars, callVars, unitVars>>

\* The consumer receives from the channel (buffered values stay readable
\* after the close).
Receive ==
  /\ updatesCh # <<>>
  /\ received' = Append(received, Head(updatesCh))
  /\ updatesCh' = Tail(updatesCh)
  /\ UNCHANGED <<loopPc, startReturned, streamDone, updatesClosed, tickPending,
                 ticks, dropped, polls, updates, pollLog, delivered, sawClosed,
                 cancelAt, sentAtCancel, recvAtCancel, pollsAtCancel>>
  /\ UNCHANGED <<batchVars, callVars, unitVars>>

\* The consumer's receive reports the channel closed.
ObserveClose ==
  /\ updatesClosed
  /\ updatesCh = <<>>
  /\ ~sawClosed
  /\ sawClosed' = TRUE
  /\ UNCHANGED <<loopPc, startReturned, streamDone, updatesCh, updatesClosed,
                 tickPending, ticks, dropped, polls, updates, pollLog, delivered,
                 received, cancelAt, sentAtCancel, recvAtCancel, pollsAtCancel>>
  /\ UNCHANGED <<batchVars, callVars, unitVars>>

\* The cancellation signal of the stream fires.
CancelStream ==
  /\ ~streamDone
  /\ streamDone' = TRUE
  /\ cancelAt' = loopPc
  /\ sentAtCancel' = Len(delivered)
  /\ recvAtCancel' = Len(received)
  /\ pollsAtCancel' = polls
  /\ UNCHANGED <<loopPc, startReturned, updatesCh, updatesClosed, tickPending,
                 ticks, dropped, polls, updates, pollLog, delivered, received,
                 sawClosed>>
  /\ UNCHANGED <<batchVars, callVars, unitVars>>

\* The scheduler turns to the other StartUpdates call: its goroutine, its
\* ticker, its ctx and its consumer.  The two calls share nothing but the
\* Client, which neither writes.
Switch ==
  /\ cur' = 3 - cur
  /\ other' = CallState
  /\ loopPc' = other.loopPc
  /\ startReturned' = other.startReturned
  /\ streamDone' = other.streamDone
  /\ updatesCh' = other.updatesCh
  /\ updatesClosed' = other.updatesClosed
  /\ tickPending' = other.tickPending
  /\ ticks' = other.ticks
  /\ dropped' = other.dropped
  /\ polls' = other.polls
  /\ updates' = other.updates
  /\ pollLog' = other.pollLog
  /\ delivered' = other.delivered
  /\ received' = other.received
  /\ sawClosed' = other.sawClosed
  /\ cancelAt' = other.cancelAt
  /\ sentAtCancel' = other.sentAtCancel
  /\ recvAtCancel' = other.recvAtCancel
  /\ pollsAtCancel' = other.pollsAtCancel
  /\ UNCHANGED <<batchVars, tickBudget, unitVars>>

StreamNext ==
  \/ StartUpdates
  \/ FirstPoll
  \/ Tick
  \/ TickPoll
  \/ LoopExit
  \/ PollRespond
  \/ PollAbort
  \/ DeliverSend
  \/ DeliverAbandon
  \/ Receive
  \/ ObserveClose
  \/ CancelStream

\* ---------------------------------------------------- specifications
\* A client on which no GetItemsBatch call is under way.
BatchIdle ==
  /\ BatchInit
  /\ ids = <<>>
  /\ Concurrency = MaxConc

\* No call outside GetItemsBatch and StartUpdates is under way.
UnitIdle == FetchIdle /\ ConfigIdle

Init == BatchInit /\ StreamInit /\ UnitIdle

Next == BatchNext \/ StreamNext

Spec == Init /\ [][Next]_vars

\* One GetItemsBatch call, no stream started.
BatchSpec == Init /\ [][BatchNext]_vars

\* One StartUpdates call.
StreamOnlyInit == BatchIdle /\ StreamInit /\ UnitIdle

StreamSpec == StreamOnlyInit /\ [][StreamNext]_vars

\* Two StartUpdates calls on one client, their steps interleaved.
TwoStreamOnlyInit == BatchIdle /\ TwoStreamInit /\ UnitIdle

TwoStreamNext == StreamNext \/ Switch

TwoStreamSpec == TwoStreamOnlyInit /\ [][TwoStreamNext]_vars

\* A client with any of the retry configurations on which one
\* GetItemsBatch call is made or, that call being the empty one, one
\* StartUpdates call.
RetryInit == RetryBatchInit /\ StreamInit /\ UnitIdle

RetryNext == BatchNext \/ (K = 0 /\ StreamNext)

RetrySpec == RetryInit /\ [][RetryNext]_vars

\* One GetItem call, followed through makeRequest.
FetchInit == BatchIdle /\ StreamInit /\ FetchStart /\ ConfigIdle

FetchSpec == FetchInit /\ [][FetchNext]_vars

\* One NewClient call.
ConfigInit == BatchIdle /\ StreamInit /\ FetchIdle /\ ConfigStart

ConfigSpec == ConfigInit /\ [][ConfigNext]_vars

\* The goroutine of StartUpdates is scheduled while it can take a step, Do
\* returns once its context is done, and a select whose ctx.Done() case is
\* ready again and again takes it eventually (Go picks among the ready
\* cases at random).  Nothing is assumed of the server, the ticker or the
\* consumer.
StreamFairness ==
  /\ WF_vars(FirstPoll)
  /\ WF_vars(PollAbort)
  /\ WF_vars(DeliverSend \/ DeliverAbandon)
  /\ WF_vars(TickPoll \/ LoopExit)
  /\ SF_vars(LoopExit)

FairStreamSpec == StreamSpec /\ StreamFairness

\* The goroutines of GetItemsBatch are scheduled while they can take a step:
\* the calling goroutine, the closer and the fetch tasks.  The fetch
\* primitive terminates: a GetItem under way returns, with the answer or
\* with the context's error once the context is done.  Nothing is assumed
\* of the caller's signal.
BatchFairness ==
  /\ WF_vars(Start \/ Spawn \/ Collect \/ Return)
  /\ WF_vars(CloseResults)
  /\ WF_vars(\E i \in Tasks : Acquire(i) \/ Issue(i))
  /\ WF_vars(\E i \in Tasks : Respond(i) \/ Abort(i))

\* The calls the fair runs start from: the scheduling of a call never reads
\* the identifiers, so ids is 1..K or K times the identifier 1.
FairBatchStart ==
  /\ BatchInit
  /\ \/ \A i \in 1..Len(ids) : ids[i] = i
     \/ \A i \in 1..Len(ids) : ids[i] = 1

FairBatchInit == FairBatchStart /\ StreamInit /\ UnitIdle

FairBatchSpec == FairBatchInit /\ [][BatchNext]_vars /\ BatchFairness

\* =========================================================== properties
\* ---- helpers of the GetItemsBatch properties
Returned == mainPc = "returned"

\* Tasks that hold a slot and whose fetch has not finished.
InFlight == {i \in Tasks : taskPc[i] \in {"acquired", "inflight"}}

Occurrences(id) == Cardinality({i \in Tasks : ids[i] = id})

Distinct == \A i, j \in Tasks : ids[i] = ids[j] => i = j

Succeeded == {i \in Tasks : outcome[i] = NoError}
Failed == {i \in Tasks : outcome[i] \notin {"none", NoError}}

Range(f) == {f[x] : x \in DOMAIN f}

\* C1: with Concurrency = C >= 1, at most C fetches are in flight (slot
\* acquired, fetch not finished) in every reachable state.
C1_InFlightAtMostCeiling ==
  Concurrency >= 1 => Cardinality(InFlight) <= Concurrency /\ sem <= Concurrency

\* The ceiling is saturated while another task waits for a slot.
C1_Witness ==
  /\ Concurrency >= 1
  /\ Cardinality(InFlight) = Concurrency
  /\ \E i \in Tasks : taskPc[i] = "queued"

\* C2: when the call has returned, each identifier has been fetched exactly
\* as often as it occurs in ids (once for distinct identifiers), and never
\* more often than that on the way, whatever the ceiling and the outcomes.
C2_OneFetchPerIdentifier ==
  /\ \A id \in Identifiers : attempts[id] <= Occurrences(id)
  /\ Returned => \A id \in Identifiers : attempts[id] = Occurrences(id)

\* Three distinct identifiers, a ceiling below K, mixed outcomes.
C2_Witness ==
  /\ Returned
  /\ K >= 3
  /\ Distinct
  /\ Concurrency \in 1..(K - 1)
  /\ Succeeded # {}
  /\ Failed # {}
  /\ \A i \in Tasks : attempts[ids[i]] = 1

\* C3: if all K fetches succeed, the call returns K values and a nil error,
\* for every ceiling >= 1.
C3_AllSucceed ==
  (Returned /\ Succeeded = Tasks)
    => (Len(retItems) = K /\ Range(retItems) = Tasks /\ retErr = NilErr)

C3_Witness ==
  /\ Returned
  /\ K >= 3
  /\ Succeeded = Tasks
  /\ Concurrency \in 1..(K - 1)
  /\ Len(retItems) = K

\* C4: if at least one fetch fails and at least one succeeds, the call
\* returns exactly the values of the fetches that succeeded (fewer than K)
\* and a non-nil error.
C4_PartialSuccess ==
  (Returned /\ Failed # {} /\ Succeeded # {})
    => /\ Range(retItems) = Succeeded
       /\ Len(retItems) = Cardinality(Succeeded)
       /\ Len(retItems) < K
       /\ retErr # NilErr

C4_Witness ==
  /\ Returned
  /\ Cardinality(Succeeded) = 2
  /\ \E i \in Tasks : outcome[i] = "failed"
  /\ Len(retItems) = 2
  /\ retErr # NilErr

\* C5: if every fetch of a non-empty batch fails, the call returns no values
\* and a non-nil error; and a non-empty batch returns no values only then.
C5_AllFail ==
  (Returned /\ K >= 1)
    => /\ (Failed = Tasks => (retItems = <<>> /\ retErr # NilErr))
       /\ (retItems = <<>> => Failed = Tasks)

C5_Witness ==
  /\ Returned
  /\ K >= 2
  /\ \A i \in Tasks : outcome[i] = "failed"
  /\ retItems = <<>>
  /\ retErr # NilErr

\* C6: on an empty ids the call returns an empty result and a nil error and
\* does nothing else: no goroutine, no fetch, no derived context.
C6_EmptyIds ==
  K = 0 => /\ mainPc \in {"start", "returned"}
           /\ spawned = 0 /\ wg = 0 /\ requests = 0
           /\ \A id \in Identifiers : attempts[id] = 0
           /\ ~ctxDone
           /\ (Returned => (retItems = <<>> /\ retErr = NilErr))

C6_Witness == K = 0 /\ Returned /\ retItems = <<>> /\ retErr = NilErr

\* C7: the call does not return before every fetch has ended; a failed
\* fetch leaves the others running (the derived context is cancelled only
\* by the return) and every result is collected.
C7_NoEarlyExit ==
  /\ Returned => /\ \A i \in Tasks : taskPc[i] = "done"
                 /\ Len(items) + Len(errors) = K
  /\ ctxDone => Returned

\* The collector holds an error while another fetch is still outstanding.
C7_Witness ==
  /\ mainPc = "collect"
  /\ errors # <<>>
  /\ \E i \in Tasks : taskPc[i] = "inflight"
  /\ ~callerDone

Started == loopPc # "init"

\* C9: once the cancellation signal of a started stream has fired (the loop
\* idle, a fetch outstanding or a delivery pending), the stream is
\* eventually closed.
C9_CancelClosesStream == (streamDone /\ Started) ~> updatesClosed

\* Closed after a cancellation that found a delivery pending on a full
\* buffer, with a consumer that never received.
C9_Witness ==
  /\ updatesClosed
  /\ cancelAt = "deliver"
  /\ Len(updatesCh) = UpdatesBuffer
  /\ received = <<>>
  /\ polls >= 2

Tag(u) == IF Len(u.Items) > 0 THEN u.Items[1] ELSE u.Profiles[1]

\* Polls whose fetch has ended.
Polled == 1..Len(pollLog)

PollFailed(n) == pollLog[n].Error # NoError
PollEmpty(n) == pollLog[n].Error = NoError /\ pollLog[n].Updates = NoUpdates
PollValue(n) == pollLog[n].Error = NoError /\ pollLog[n].Updates # NoUpdates

\* C11: the goroutine polls as soon as it starts: it never waits at its
\* select before the first pollUpdates call, and that call uses up no tick
\* (the polls after the first are at most the ticks taken from ticker.C).
C11_ImmediateFirstPoll ==
  /\ loopPc \in {"fetching", "deliver", "idle", "exited"} => polls >= 1
  /\ polls >= 1 => polls - 1 <= ticks - (IF tickPending THEN 1 ELSE 0)

\* The consumer holds the first poll's value and no tick has occurred.
C11_Witness ==
  /\ ticks = 0
  /\ polls = 1
  /\ Len(received) = 1
  /\ received[1] = pollLog[1].Updates

\* C12: every value sent on, held by or received from the stream has a
\* non-empty Items or a non-empty Profiles.
C12_NoEmptyDelivery ==
  \A u \in Range(delivered) \cup Range(updatesCh) \cup Range(received) :
    Len(u.Items) > 0 \/ Len(u.Profiles) > 0

\* The second poll decoded an Updates with nothing in it: only the first
\* poll's value was sent.
C12_Witness ==
  /\ Len(pollLog) >= 2
  /\ PollValue(1)
  /\ PollEmpty(2)
  /\ loopPc = "idle"
  /\ delivered = <<pollLog[1].Updates>>

\* C13: a poll that failed delivers nothing and, the signal not having
\* fired, leaves the stream open and the loop at its select, ready for the
\* next tick; if the first poll failed and the second decoded a non-empty
\* Updates, the first value the consumer receives is that Updates.
C13_FailedPollSwallowed ==
  /\ \A n \in Polled :
       PollFailed(n) =>
         /\ \A k \in DOMAIN delivered : Tag(delivered[k]) # n
         /\ ~streamDone => (~updatesClosed /\ loopPc # "exited")
         /\ (~streamDone /\ n = polls) => loopPc = "idle"
  /\ (Len(pollLog) >= 2 /\ PollFailed(1) /\ PollValue(2) /\ received # <<>>)
       => received[1] = pollLog[2].Updates

C13_Witness ==
  /\ Len(pollLog) >= 2
  /\ pollLog[1].Error = "failed"
  /\ PollValue(2)
  /\ received = <<pollLog[2].Updates>>
  /\ ~updatesClosed

\* C14: a poll that decoded a non-empty Updates and is past its send has
\* delivered it, unless the signal fired while the delivery was pending;
\* and whatever was delivered is received or still buffered, in order.
C14_NonEmptyDelivered ==
  /\ \A n \in Polled :
       (PollValue(n) /\ ~(n = polls /\ loopPc = "deliver"))
         => \/ pollLog[n].Updates \in Range(delivered)
            \/ (streamDone /\ cancelAt = "deliver")
  /\ delivered = received \o updatesCh

\* Two polls delivered to a consumer that had to make room for the second.
C14_Witness ==
  /\ ~streamDone
  /\ Len(delivered) = 2
  /\ PollValue(1)
  /\ PollValue(2)
  /\ updatesCh # <<>>

\* C15: when the signal has fired while a delivery is pending on a full
\* buffer, the delivery can only be abandoned (nothing is sent) and the
\* stream is eventually closed, whether or not the consumer ever receives.
C15_DeliveryCancellationAware ==
  /\ [][(loopPc = "deliver" /\ streamDone /\ Len(updatesCh) = UpdatesBuffer
           /\ loopPc' # "deliver")
          => (loopPc' = "idle" /\ delivered' = delivered)]_vars
  /\ (loopPc = "deliver" /\ streamDone /\ Len(updatesCh) = UpdatesBuffer)
       ~> updatesClosed

\* Closed with the abandoned Updates never sent and nothing ever received.
C15_Witness ==
  /\ updatesClosed
  /\ cancelAt = "deliver"
  /\ updates # NoUpdates
  /\ updates \notin Range(delivered)
  /\ Len(updatesCh) = UpdatesBuffer
  /\ received = <<>>

\* C16: once the stream is closed the goroutine has exited and stays so:
\* no further close, no further pollUpdates call, no further send.
C16_CloseIsTerminal ==
  [][updatesClosed =>
       /\ loopPc = "exited" /\ loopPc' = "exited"
       /\ updatesClosed'
       /\ polls' = polls
       /\ pollLog' = pollLog
       /\ delivered' = delivered]_vars

\* Closed with a tick left in ticker.C that nobody takes.
C16_Witness ==
  /\ updatesClosed
  /\ sawClosed
  /\ tickPending
  /\ polls >= 1

\* C17: when the signal fires while the loop waits at its select, nothing
\* is sent on the stream from then on and the stream is eventually closed.
C17_CancelWhileIdle ==
  /\ [](cancelAt = "idle" => Len(delivered) = sentAtCancel)
  /\ (cancelAt = "idle") ~> updatesClosed

\* After the signal the select still took a tick; that poll failed on the
\* context and the stream was closed with nothing more sent.
C17_Witness ==
  /\ updatesClosed
  /\ cancelAt = "idle"
  /\ sentAtCancel >= 1
  /\ Len(pollLog) >= 2
  /\ pollLog[Len(pollLog)].Error = ctxErr
  /\ Len(delivered) = sentAtCancel

\* C18: after the signal has fired the consumer receives at most one more
\* update.
C18_AtMostOneAfterCancel ==
  streamDone => Len(received) - recvAtCancel <= 1

\* C19: StartUpdates has returned its handle as soon as the goroutine
\* exists, whatever the goroutine's fetches do; at that moment no poll has
\* begun and the stream is open and empty.
C19_StartReturnsAtOnce ==
  /\ Started => startReturned
  /\ loopPc = "start" => (polls = 0 /\ ~updatesClosed /\ updatesCh = <<>>)
  /\ (startReturned /\ ~streamDone) => ~updatesClosed

\* The caller has its handle while the first request stays unanswered
\* beyond a tick.
C19_Witness ==
  /\ startReturned
  /\ loopPc = "fetching"
  /\ polls = 1
  /\ pollLog = <<>>
  /\ ticks >= 1

\* C20: the consumer receives values in the order of the polls they came
\* from, each at most once, and each is the non-empty Updates that poll
\* decoded (so the immediate poll's value precedes any tick-triggered one).
C20_OrderedDeliveries ==
  /\ \A i, j \in DOMAIN received :
       i < j => Tag(received[i]) < Tag(received[j])
  /\ \A i \in DOMAIN received :
       /\ Tag(received[i]) \in Polled
       /\ PollValue(Tag(received[i]))
       /\ received[i] = pollLog[Tag(received[i])].Updates

C20_Witness ==
  /\ Len(received) >= 2
  /\ Tag(received[1]) = 1
  /\ Tag(received[2]) = 2

\* C21 as stated: every tick that occurred before the signal has triggered
\* exactly one poll once the loop is back at its select with ticker.C empty.
C21_EveryTickOneFetch ==
  (~streamDone /\ loopPc = "idle" /\ ~tickPending) => polls = 1 + ticks

\* C21 amended: the polls after the immediate one are exactly the ticks the
\* loop has taken from ticker.C, which are the ticks produced less those the
\* ticker dropped because ticker.C still held one and less the one it may
\* hold now; before the immediate poll there is neither a tick nor a poll.
C21_OneFetchPerTakenTick ==
  /\ loopPc \in {"init", "start"} => (polls = 0 /\ ticks = 0)
  /\ loopPc \notin {"init", "start"}
       => polls = 1 + ticks - dropped - (IF tickPending THEN 1 ELSE 0)

\* Two ticks occurred while the first fetch was outstanding: one was
\* dropped, and the loop is back at its select after the only tick poll.
C21_Witness ==
  /\ ~streamDone
  /\ loopPc = "idle"
  /\ ~tickPending
  /\ ticks = 2
  /\ dropped = 1
  /\ polls = 2
  /\ Len(pollLog) = 2

\* ---- helpers of the properties of two StartUpdates calls
Calls == {1, 2}

\* The locals and history of call n.
Call(n) == IF cur = n THEN CallState ELSE other

\* C22: two StartUpdates calls are independent.  A step of one call leaves
\* the other call's ctx, stream, ticker and loop as they were; a stream is
\* closed, and a poll fails on its context, only when the call's own signal
\* has fired; and each call's polls follow its own ticker.
C22_CallsIndependent ==
  /\ [][\A n \in Calls :
          /\ cur' = cur => Call(3 - cur)' = Call(3 - cur)
          /\ cur' # cur => Call(n)' = Call(n)]_vars
  /\ [](\A n \in Calls :
          /\ (Call(n).updatesClosed \/ Call(n).loopPc = "exited")
               => Call(n).streamDone
          /\ \A k \in DOMAIN Call(n).pollLog :
               Call(n).pollLog[k].Error = ctxErr => Call(n).streamDone
          /\ Call(n).loopPc \notin {"init", "start"}
               => Call(n).polls = 1 + Call(n).ticks - Call(n).dropped
                                   - (IF Call(n).tickPending THEN 1 ELSE 0))

\* Call 1 is cancelled and its stream closed, its ticker never having
\* fired; call 2 is open, has polled on its own tick and its consumer has
\* received the values of both of its polls.
C22_Witness ==
  /\ Call(1).updatesClosed
  /\ Call(1).ticks = 0
  /\ ~Call(2).streamDone
  /\ ~Call(2).updatesClosed
  /\ Call(2).polls = 2
  /\ Len(Call(2).received) = 2
  /\ Call(2).received[2] = Call(2).pollLog[2].Updates

\* ---- more helpers of the GetItemsBatch properties
\* The GetItem failure a returned error carries (alone or wrapped).
Cause(err) == err[Len(err)]

C24_QueuedSendNoRequest ==
  /\ \A i \in queuedAtCancel : taskPc[i] # "inflight"
  /\ requests <= K - Cardinality(queuedAtCancel)
  /\ (callerDone /\ queuedAtCancel # {}) => requests < K

\* A ceiling of 1 and three identifiers: the signal fired while the first
\* request was outstanding, and the call returned with one request sent.
C24_Witness ==
  /\ Returned
  /\ K = 3
  /\ Concurrency = 1
  /\ Cardinality(queuedAtCancel) = 2
  /\ requests = 1
  /\ \A id \in Identifiers : attempts[id] = Occurrences(id)

\* C25: with Concurrency = 0 and a non-empty ids no task ever gets past its
\* send on sem: no GetItem call, no request, no result, and the call does
\* not return, whether or not the caller's signal fires.
C25_ZeroCeilingDeadlocks ==
  (Concurrency = 0 /\ K >= 1)
    => /\ ~Returned
       /\ \A i \in Tasks : taskPc[i] \in {"idle", "queued"}
       /\ sem = 0
       /\ requests = 0
       /\ \A id \in Identifiers : attempts[id] = 0
       /\ resultCh = <<>> /\ ~resultClosed
       /\ items = <<>> /\ errors = <<>>

\* Every task is blocked on sem and the caller on resultCh, the caller's
\* signal having fired: no step but stuttering is left.
C25_Witness ==
  /\ Concurrency = 0
  /\ K >= 2
  /\ mainPc = "collect"
  /\ \A i \in Tasks : taskPc[i] = "queued"
  /\ wg = K
  /\ callerDone
  /\ ~ENABLED BatchNext

\* C26: every blocking wait races against the signal: once the signal has
\* fired, a task waiting for a slot (the ceiling being at least 1) and a
\* loop waiting to deliver can each take a step that ends the wait.
C26_WaitsRaceCancellation ==
  /\ \A i \in Tasks :
       (Concurrency >= 1 /\ callerDone /\ taskPc[i] = "queued")
         => ENABLED Acquire(i)
  /\ (streamDone /\ loopPc = "deliver") => ENABLED DeliverAbandon

\* C27: a fetch ends by itself when RequestTimeout expires: a poll whose
\* request is outstanding comes to an end (with an error if the server
\* never answers), whether or not the signal ever fires.
C27_FetchEndsByDeadline == (loopPc = "fetching") ~> (loopPc # "fetching")

\* Tasks that have called GetItem.
Called == {i \in Tasks : taskPc[i] \in {"inflight", "done"}}

ItemError(kind) == <<"failed to get item", fetchIn.id, kind>>

\* The request was made and answered with status 200 and a readable body.
Answered200 ==
  /\ fetchIn.urlOk /\ ~fetchIn.ctxDone /\ fetchIn.transportOk
  /\ fetchIn.status = 200 /\ fetchIn.readOk

\* C29: GetItem returns an item or an error, never both and never neither;
\* on a transport failure, a status other than 200, an empty or null body
\* and malformed JSON it returns nil and that failure (whatever Unmarshal
\* left in the item), and it returns an item exactly when makeRequest on
\* the server's answer returns nil.
C29_ValueOrError ==
  fetchPc = "returned" =>
    /\ (gotItem = "nil") <=> (gotErr # NilErr)
    /\ gotItem # "nil" => (gotItem = target /\ target # "partial")
    /\ (fetchIn.urlOk /\ ~fetchIn.ctxDone /\ ~fetchIn.transportOk)
         => (gotItem = "nil" /\ gotErr = ItemError("execute"))
    /\ (fetchIn.urlOk /\ ~fetchIn.ctxDone /\ fetchIn.transportOk
           /\ fetchIn.status # 200)
         => (gotItem = "nil" /\ gotErr = ItemError("status"))
    /\ (Answered200 /\ fetchIn.body \in {"empty", "null"})
         => (gotItem = "nil" /\ gotErr = ItemError("empty"))
    /\ (Answered200 /\ fetchIn.body \in {"invalidJSON", "wrongType"})
         => (gotItem = "nil" /\ gotErr = ItemError("unmarshal"))
    /\ (fetchIn.urlOk /\ ~fetchIn.ctxDone)
         => ((gotErr = NilErr) <=> (GetItem(ResponseOf(fetchIn)) = NoError))

\* Unmarshal decoded part of the item before it failed on a field of the
\* wrong type: GetItem returned nil and the error.
C29_Witness ==
  /\ fetchPc = "returned"
  /\ fetchIn.body = "wrongType"
  /\ target = "partial"
  /\ gotItem = "nil"
  /\ gotErr = ItemError("unmarshal")

\* ---- helpers of the NewClient properties
Fields == {"BaseURL", "RequestTimeout", "MaxRetries", "BackoffInterval",
           "PollInterval", "Concurrency", "HTTPClient"}

\* The default of a field: the three the specification states (durations
\* in seconds), the others as DefaultConfig sets them.
StatedDefault(f) ==
  IF f = "Concurrency" THEN 10
  ELSE IF f = "PollInterval" THEN 30
  ELSE IF f = "RequestTimeout" THEN 10
  ELSE DefaultConfig[f]

\* The options for field f among the first k.
SetBy(f, k) == {j \in 1..k : opts[j].field = f}

LastOf(S) == CHOOSE j \in S : \A i \in S : i <= j

\* C30: NewClient starts from the defaults and each option sets its own
\* field only: after any number of options, a field no option has named
\* holds its default and any other the argument of the last option that
\* named it; NewClient returns once every option has been applied.
C30_DefaultsAndOptions ==
  /\ cfgPc \in {"apply", "created"}
       => \A f \in Fields :
            config[f] = IF SetBy(f, applied) = {}
                          THEN StatedDefault(f)
                          ELSE opts[LastOf(SetBy(f, applied))].value
  /\ cfgPc = "created" => applied = Len(opts)

\* NewClient(WithRequestTimeout(7s), WithConcurrency(15)): the two fields
\* are set, BaseURL, the retry fields, PollInterval and HTTPClient are the
\* defaults.
C30_Witness ==
  /\ cfgPc = "created"
  /\ opts = <<[field |-> "RequestTimeout", value |-> 7],
              [field |-> "Concurrency", value |-> 15]>>
  /\ config = [DefaultConfig EXCEPT !.RequestTimeout = 7, !.Concurrency = 15]
  /\ config.PollInterval = 30

\* ---- the state machines of a GetItemsBatch call
\* The phase of a fetch: Pending until it holds a slot, InFlight while it
\* holds one, then the terminal state its GetItem ended in.
FetchPhase(i) ==
  IF taskPc[i] \in {"idle", "queued"} THEN "Pending"
  ELSE IF taskPc[i] \in {"acquired", "inflight"} THEN "InFlight"
  ELSE IF outcome[i] = NoError THEN "Succeeded"
  ELSE IF outcome[i] = ctxErr THEN "Canceled"
  ELSE "Failed"

Terminal == {"Succeeded", "Failed", "Canceled"}

\* The phase of the batch: Accepting while fetches are being scheduled,
\* Draining until every fetch is terminal, then Completed.
BatchPhase ==
  IF spawned < K THEN "Accepting"
  ELSE IF \E i \in Tasks : FetchPhase(i) \notin Terminal THEN "Draining"
  ELSE "Completed"

\* C31: with a ceiling of at least 1 and a fetch primitive that terminates,
\* every GetItemsBatch call returns in the end, with every fetch terminal;
\* on the way each fetch only ever moves Pending -> InFlight -> terminal
\* and the batch Accepting -> Draining -> Completed, whatever K and the
\* ceiling are.
C31_BatchTerminates ==
  /\ [][ /\ \A i \in Tasks :
              \/ FetchPhase(i)' = FetchPhase(i)
              \/ FetchPhase(i) = "Pending" /\ FetchPhase(i)' = "InFlight"
              \/ FetchPhase(i) = "InFlight" /\ FetchPhase(i)' \in Terminal
         /\ \/ BatchPhase' = BatchPhase
            \/ BatchPhase = "Accepting" /\ BatchPhase' = "Draining"
            \/ BatchPhase = "Draining" /\ BatchPhase' = "Completed" ]_vars
  /\ (Concurrency >= 1)
       ~> (Returned /\ BatchPhase = "Completed" /\ sem = 0
             /\ Len(retItems) = Cardinality(Succeeded))

\* Three identifiers under a ceiling of 1 went through one after the other:
\* one succeeded, one failed, one was cancelled, and the call returned.
C31_Witness ==
  /\ Returned
  /\ K = 3
  /\ Concurrency = 1
  /\ {FetchPhase(i) : i \in Tasks} = Terminal
  /\ BatchPhase = "Completed"

\* C32: when the caller's signal fired after some fetches had succeeded and
\* while others had not finished, the call returns the values of exactly the
\* fetches that succeeded, together with a non-nil error that is not the
\* fatal one; it is the cancellation error unless a fetch had failed
\* otherwise.
C32_PartialDataSurvivesCancel ==
  (Returned /\ liveAtCancel # {} /\ (Succeeded \ liveAtCancel) # {})
    => /\ Range(retItems) = Succeeded
       /\ Len(retItems) = Cardinality(Succeeded)
       /\ liveAtCancel \cap Succeeded = {}
       /\ retErr # NilErr
       /\ Len(retErr) = 1
       /\ Cause(retErr).Error # NoError
       /\ (Failed \subseteq liveAtCancel) => (Cause(retErr).Error = ctxErr)

\* One fetch of three had succeeded when the signal fired; its value is
\* returned with the cancellation error of one of the other two.
C32_Witness ==
  /\ Returned
  /\ K = 3
  /\ Cardinality(liveAtCancel) = 2
  /\ Cardinality(Succeeded) = 1
  /\ Len(retItems) = 1
  /\ retItems[1] \notin liveAtCancel
  /\ Len(retErr) = 1
  /\ Cause(retErr).Error = ctxErr

\* The values returned for an identifier.
ValuesOf(id) == {j \in 1..Len(retItems) : ids[retItems[j]] = id}

\* The tasks that fetch an identifier.
TasksOf(id) == {i \in Tasks : ids[i] = id}

\* C33: each occurrence of an identifier is fetched on its own: when the
\* call has returned, an identifier that occurs m times was fetched by m
\* tasks, m times in all, and if all m fetches succeeded the result holds m
\* values for it.
C33_DuplicatesFetchedIndependently ==
  Returned =>
    \A id \in Identifiers :
      /\ Cardinality({i \in TasksOf(id) : outcome[i] # "none"})
           = Occurrences(id)
      /\ attempts[id] = Cardinality(TasksOf(id))
      /\ TasksOf(id) \subseteq Succeeded
           => Cardinality(ValuesOf(id)) = Occurrences(id)

\* ids = [1, 1, 2]: both fetches of 1 succeeded and gave two values, the
\* fetch of 2 failed.
C33_Witness ==
  /\ Returned
  /\ ids = <<1, 1, 2>>
  /\ Succeeded = {1, 2}
  /\ attempts[1] = 2
  /\ Cardinality(ValuesOf(1)) = 2
  /\ Len(retItems) = 2

\* ---- more helpers of the StartUpdates properties
\* Fetches of the streamer that were started and have not ended.
Outstanding == polls - Len(pollLog)

\* C34: the polls of one streamer are sequential: at most one of its
\* fetches is outstanding in every reachable state, and a step that starts
\* a poll starts exactly one, with no fetch outstanding and no delivery
\* pending, every value of the earlier polls having been sent unless the
\* signal has fired.
C34_PollsSequential ==
  /\ [](/\ Outstanding \in {0, 1}
        /\ Outstanding = 1 <=> loopPc = "fetching")
  /\ [][polls' # polls =>
          /\ polls' = polls + 1
          /\ Outstanding = 0
          /\ loopPc \notin {"fetching", "deliver"}
          /\ ~streamDone =>
               Len(delivered) = Cardinality({n \in Polled : PollValue(n)})]_vars

\* The second poll's fetch is outstanding, the first poll's value having
\* been sent and not yet received.
C34_Witness ==
  /\ polls = 2
  /\ Outstanding = 1
  /\ loopPc = "fetching"
  /\ Len(delivered) = 1
  /\ Len(updatesCh) = 1
  /\ ~streamDone

\* C35: a slow consumer does not block the polling: while the signal has
\* not fired, a loop that has a value to deliver can hand it over without
\* the consumer receiving anything, and so go on to its next poll.
C35_SlowConsumerNeverBlocksPolling ==
  (~streamDone /\ loopPc = "deliver") => ENABLED DeliverSend

\* The results a task has sent: still in resultCh or collected.
SentBy(i) ==
  Cardinality({j \in 1..Len(resultCh) : resultCh[j].idx = i})
    + Cardinality({j \in 1..Len(items) : items[j] = i})
    + Cardinality({j \in 1..Len(errors) : errors[j].idx = i})

\* C36: the result sink never blocks a fetch task and loses no result: a
\* task that holds a slot can always take its next step, whatever the
\* collector is doing (the send on resultCh finds room), each task has sent
\* one result once it is done and none before, and when the call has
\* returned the values returned and the failures recorded are K together.
C36_SinkNeverBlocksNorLoses ==
  /\ \A i \in Tasks :
       /\ taskPc[i] = "acquired" => ENABLED Issue(i)
       /\ taskPc[i] = "inflight" => ENABLED (Respond(i) \/ Abort(i))
       /\ SentBy(i) = IF taskPc[i] = "done" THEN 1 ELSE 0
  /\ Len(resultCh) <= K
  /\ Returned => Len(retItems) + Len(errors) = K

\* All three tasks have sent their results before the spawning loop's
\* goroutine has begun to collect: the buffer is full.
C36_Witness ==
  /\ K = 3
  /\ Len(resultCh) = 3
  /\ \A i \in Tasks : taskPc[i] = "done" /\ SentBy(i) = 1
  /\ items = <<>> /\ errors = <<>>
  /\ ~resultClosed

\* C37: a poll started after the signal fired delivers nothing: its fetch
\* gives no value, and every value sent on the stream, those sent after the
\* signal included, comes from a poll that was started before the signal.
C37_NoDeliveryFromPollAfterCancel ==
  streamDone =>
    /\ \A n \in Polled : n > pollsAtCancel => pollLog[n].Error # NoError
    /\ \A j \in 1..Len(delivered) : Tag(delivered[j]) <= pollsAtCancel
    /\ loopPc = "deliver" => polls <= pollsAtCancel

\* The signal fired while the first poll's value waited to be sent; the
\* value was sent all the same, and the poll of the next tick, started
\* after the signal, ended with the context's error.
C37_Witness ==
  /\ streamDone
  /\ cancelAt = "deliver"
  /\ pollsAtCancel = 1
  /\ Len(delivered) = sentAtCancel + 1
  /\ polls = 2
  /\ Len(pollLog) = 2
  /\ pollLog[2].Error = ctxErr

\* C38: the context GetItemsBatch derives never aborts a fetch of its own
\* batch: cancel() has run only when the call has returned, every task then
\* being done with its slot released, so a fetch ended with a cancellation
\* error only if the caller's signal had fired before it ended.
C38_DerivedCancelAbortsNoFetch ==
  /\ ctxDone <=> (Returned /\ K >= 1)
  /\ ctxDone => /\ \A i \in Tasks : taskPc[i] = "done"
                /\ sem = 0
                /\ wg = 0
  /\ \A i \in Tasks :
       outcome[i] = ctxErr => (callerDone /\ i \in liveAtCancel)

\* The call has returned with a failure and two values, the caller's signal
\* never having fired: cancel() ran at the return and no fetch was
\* cancelled.
C38_Witness ==
  /\ Returned
  /\ ctxDone
  /\ ~callerDone
  /\ K = 3
  /\ Cardinality(Failed) = 1
  /\ Len(retItems) = 2
  /\ \A i \in Tasks : outcome[i] # ctxErr
====
